---- MODULE Spec2Model ----
(***************************************************************************)
(* Model of examples/Comparison.cpp (Kimera-RPGO): the command-line driver *)
(* that configures RobustSolverParams from argv, loads a 2D g2o graph and  *)
(* runs one RobustSolver update followed by saveData.                      *)
(*                                                                         *)
(* A double is a record [kind, v]: kind "finite" with integer value v (the *)
(* sample arguments hold no fraction or exponent), kind "max" for          *)
(* std::numeric_limits<double>::max(), kind "default" for a field that     *)
(* still holds what the RobustSolverParams constructor put there.          *)
(***************************************************************************)
EXTENDS Integers, Sequences, FiniteSets, TLC

VARIABLES
  pc,                     \* position in main / Simulate
  argc, argv,             \* the command line (argv[0] is left out)
  disk,                   \* what load2D reads from the one existing graph file
  pcm_str, gnc_str, g2ofile, pcm_t, pcm_R, gnc_barcsq, max_clique_method_str,
  max_clique_method, output_folder, verbose, verbosity,
  params,                 \* main's RobustSolverParams
  graphNValues,           \* main's GraphAndValues
  nfg, values, pgo, current_key, init_values, init_factors,  \* Simulate's locals
  calls,                  \* calls made on params, load2D and the solver, in order
  logs                    \* log<> messages, in order

vars == <<pc, argc, argv, disk, pcm_str, gnc_str, g2ofile, pcm_t, pcm_R,
          gnc_barcsq, max_clique_method_str, max_clique_method, output_folder,
          verbose, verbosity, params, graphNValues, nfg, values, pgo,
          current_key, init_values, init_factors, calls, logs>>

-----------------------------------------------------------------------------
(* Bounds of the graphs a file may hold *)
MaxFactors == 2
MaxKey == 1

-----------------------------------------------------------------------------
(* doubles *)
Dbl(n) == [kind |-> "finite", v |-> n]
DBL_MAX == [kind |-> "max", v |-> 0]
DefaultDbl == [kind |-> "default", v |-> 0]

(* The texts of the sample arguments, character by character *)
Chars(s) ==
  CASE s = "7"         -> <<"7">>
    [] s = "-12"       -> <<"-", "1", "2">>
    [] s = "3x"        -> <<"3", "x">>
    [] s = " +40"      -> <<" ", "+", "4", "0">>
    [] s = "pmc_exact" -> <<"p", "m", "c", "_", "e", "x", "a", "c", "t">>
    [] s = "pmc_heu"   -> <<"p", "m", "c", "_", "h", "e", "u">>
    [] s = "clipper"   -> <<"c", "l", "i", "p", "p", "e", "r">>
    [] s = "pmc_exct"  -> <<"p", "m", "c", "_", "e", "x", "c", "t">>
    [] s = "out3d"     -> <<"o", "u", "t", "3", "d">>

Digits == {"0", "1", "2", "3", "4", "5", "6", "7", "8", "9"}
DigitVal(c) ==
  CASE c = "0" -> 0 [] c = "1" -> 1 [] c = "2" -> 2 [] c = "3" -> 3
    [] c = "4" -> 4 [] c = "5" -> 5 [] c = "6" -> 6 [] c = "7" -> 7
    [] c = "8" -> 8 [] c = "9" -> 9

RECURSIVE SkipSpaces(_, _)
SkipSpaces(s, i) ==
  IF i <= Len(s) /\ s[i] = " " THEN SkipSpaces(s, i + 1) ELSE i

RECURSIVE ParseDigits(_, _, _)
ParseDigits(s, i, acc) ==
  IF i <= Len(s) /\ s[i] \in Digits
    THEN ParseDigits(s, i + 1, 10 * acc + DigitVal(s[i]))
    ELSE acc

(* atof: leading blanks, an optional sign, then the longest run of digits; *)
(* 0 when no digit follows                                                  *)
atof(str) ==
  LET s == Chars(str)
      i == SkipSpaces(s, 1)
      signed == i <= Len(s) /\ s[i] \in {"-", "+"}
      neg == signed /\ s[i] = "-"
      j == IF signed THEN i + 1 ELSE i
      mag == ParseDigits(s, j, 0)
  IN  Dbl(IF neg THEN 0 - mag ELSE mag)

-----------------------------------------------------------------------------
(* Inputs *)
PcmTokens == {"NoPCM", "PCM2dSimp", "PCM2dOrig"}
GncTokens == {"NoGNC", "GNC"}
CliqueTokens == {"pmc_exact", "pmc_heu", "clipper"}
NumStrs == {"7", "-12", "3x", " +40"}
GraphFile == "graph2d.g2o"
GraphFile3d == "graph3d.g2o"

(* first documented form of the command line, with unsupported tokens too *)
Argv2d ==
  { <<p, g, GraphFile, a4, a5, a6, m>> \o tail :
      p \in PcmTokens \cup {"PCM3d"}, g \in GncTokens \cup {"gnc"},
      a4 \in NumStrs, a5 \in NumStrs, a6 \in NumStrs,
      m \in CliqueTokens \cup {"pmc_exct"},
      tail \in {<<>>, <<"out">>, <<"out", "v">>, <<"out", "q">>} }

(* second documented form: 3d <file> <t> <R> <barc_sq> <method> <out> <verbosity> *)
Argv3d ==
  { <<"3d", GraphFile3d, a3, a4, a5, m, "out3d", "v">> :
      a3 \in NumStrs, a4 \in NumStrs, a5 \in NumStrs, m \in CliqueTokens }

Keys == 0 .. MaxKey
PoseVals == {"p0", "p1"}
NoKey == 0 - 1

Factor(ks) == [type |-> "between", keys |-> ks, prior |-> "none", pose |-> "Pose2"]
(* the pose type Simulate is instantiated with, line 168 *)
T == "Pose2"
PriorFactor(k, v) == [type |-> "prior", keys |-> <<k>>, prior |-> v, pose |-> T]

RECURSIVE SeqsUpTo(_, _)
SeqsUpTo(S, n) ==
  IF n = 0 THEN {<<>>}
  ELSE LET shorter == SeqsUpTo(S, n - 1)
       IN  shorter \cup {Append(q, x) : q \in {r \in shorter : Len(r) = n - 1}, x \in S}

FactorKeys(fs) == UNION {{fs[i].keys[j] : j \in 1 .. Len(fs[i].keys)} : i \in 1 .. Len(fs)}

(* Values: a map from the keys present to poses; absent keys map to "none" *)
NoValues == [k \in Keys |-> "none"]
Exists(vs, k) == k \in DOMAIN vs /\ vs[k] # "none"

(* What load2D can return: the edges of the file as between factors, and a  *)
(* value for every vertex of the file and for every endpoint of an edge.    *)
Graphs ==
  { [factors |-> fs, values |-> vs] :
      fs \in SeqsUpTo({Factor(<<a, b>>) : a \in Keys, b \in Keys}, MaxFactors),
      vs \in [Keys -> PoseVals \cup {"none"}] } 

LoadableGraphs == {g \in Graphs : \A k \in FactorKeys(g.factors) : Exists(g.values, k)}

-----------------------------------------------------------------------------
(* RobustSolverParams (KimeraRPGO/SolverParams.h): the configuration       *)
(* surface, with the heuristic max-clique method as the default            *)
DefaultParams ==
  [pcm_mode |-> "default", pcm_thresh1 |-> DefaultDbl, pcm_thresh2 |-> DefaultDbl,
   verbosity |-> "default", max_clique_method |-> "PMC_HEU",
   gnc_threshold |-> DefaultDbl, log_folder |-> "default"]

logOutput(p, folder) == [p EXCEPT !.log_folder = folder]

setPcm2DParams(p, odomThreshold, lcThreshold, verbos) ==
  [p EXCEPT !.pcm_mode = "original", !.pcm_thresh1 = odomThreshold,
            !.pcm_thresh2 = lcThreshold, !.verbosity = verbos]

setPcmSimple2DParams(p, transThreshold, rotThreshold, verbos) ==
  [p EXCEPT !.pcm_mode = "simple", !.pcm_thresh1 = transThreshold,
            !.pcm_thresh2 = rotThreshold, !.verbosity = verbos]

setMaxCliqueMethod(p, method) == [p EXCEPT !.max_clique_method = method]

setGncInlierCostThresholds(p, cost) == [p EXCEPT !.gnc_threshold = cost]

Call(f, a) == [fn |-> f, args |-> a]
Log(level, text) == [severity |-> level, msg |-> text]

-----------------------------------------------------------------------------
Common ==
  /\ pc = "start"
  /\ pcm_str = "" /\ gnc_str = "" /\ g2ofile = ""
  /\ pcm_t = Dbl(0) /\ pcm_R = Dbl(0) /\ gnc_barcsq = Dbl(0)
  /\ max_clique_method_str = ""
  /\ max_clique_method = "uninitialized"
  /\ output_folder = "" /\ verbose = FALSE /\ verbosity = "VERBOSE"
  /\ params = DefaultParams
  /\ graphNValues = [factors |-> <<>>, values |-> NoValues]
  /\ nfg = <<>> /\ values = NoValues
  /\ pgo = [constructed |-> FALSE, params |-> DefaultParams]
  /\ current_key = NoKey
  /\ init_values = NoValues /\ init_factors = <<>>
  /\ calls = <<>> /\ logs = <<>>

(* the graphs the token claims run on: none, one edge, two edges *)
SampleGraphs ==
  { [factors |-> <<>>, values |-> NoValues],
    [factors |-> <<Factor(<<0, 1>>)>>, values |-> [k \in Keys |-> IF k = 0 THEN "p0" ELSE "p1"]],
    [factors |-> <<Factor(<<1, 0>>), Factor(<<0, 1>>)>>, values |-> [k \in Keys |-> "p1"]] }

Init ==
  /\ argv \in Argv2d \cup Argv3d
  /\ argc = Len(argv) + 1
  /\ disk \in SampleGraphs
  /\ Common

(* every loadable graph within the bounds, a few command lines *)
SampleArgv ==
  { <<p, "GNC", f, "7", "-12", "3x", "clipper", "out", "v">> :
      p \in PcmTokens \cup {"PCM3d"}, f \in {GraphFile, "missing.g2o"} }

InitSim ==
  /\ argv \in SampleArgv
  /\ argc = Len(argv) + 1
  /\ disk \in LoadableGraphs
  /\ Common

-----------------------------------------------------------------------------
(* main, lines 58-65 *)
ReadArgs ==
  /\ pc = "start"
  /\ pcm_str' = argv[1]
  /\ gnc_str' = argv[2]
  /\ g2ofile' = argv[3]
  /\ pcm_t' = atof(argv[4])
  /\ pcm_R' = atof(argv[5])
  /\ gnc_barcsq' = atof(argv[6])
  /\ max_clique_method_str' = argv[7]
  /\ pc' = "clique"
  /\ UNCHANGED <<argc, argv, disk, max_clique_method, output_folder, verbose,
                 verbosity, params, graphNValues, nfg, values, pgo, current_key,
                 init_values, init_factors, calls, logs>>

(* variant: the fallback picks the exact method *)
ParseMaxCliqueMethod_ExactFallback(str) ==
  IF str = "pmc_exact" THEN
    [method |-> "PMC_EXACT", msgs |-> <<Log("INFO", "Max Clique Solver: PMC (Exact)")>>]
  ELSE IF str = "pmc_heu" THEN
    [method |-> "PMC_HEU", msgs |-> <<Log("INFO", "Max Clique Solver: PMC (Heuristic)")>>]
  ELSE IF str = "clipper" THEN
    [method |-> "CLIPPER", msgs |-> <<Log("INFO", "Max Clique Solver: Clipper")>>]
  ELSE
    [method |-> "PMC_EXACT",
     msgs |-> <<Log("WARNING", "Unsupported Max Clique Method"),
                Log("INFO", "Max Clique Solver: PMC (Heuristic)")>>]

(* main, lines 67-82: the method and the messages logged for a token *)
ParseMaxCliqueMethod(str) ==
  IF str = "pmc_exact" THEN
    [method |-> "PMC_EXACT", msgs |-> <<Log("INFO", "Max Clique Solver: PMC (Exact)")>>]
  ELSE IF str = "pmc_heu" THEN
    [method |-> "PMC_HEU", msgs |-> <<Log("INFO", "Max Clique Solver: PMC (Heuristic)")>>]
  ELSE IF str = "clipper" THEN
    [method |-> "CLIPPER", msgs |-> <<Log("INFO", "Max Clique Solver: Clipper")>>]
  ELSE
    [method |-> "PMC_HEU",
     msgs |-> <<Log("WARNING", "Unsupported Max Clique Method"),
                Log("INFO", "Max Clique Solver: PMC (Heuristic)")>>]

SelectMaxCliqueMethod ==
  /\ pc = "clique"
  /\ LET r == ParseMaxCliqueMethod(max_clique_method_str)
     IN  /\ max_clique_method' = r.method
         /\ logs' = logs \o r.msgs
  /\ pc' = "output"
  /\ UNCHANGED <<argc, argv, disk, pcm_str, gnc_str, g2ofile, pcm_t, pcm_R,
                 gnc_barcsq, max_clique_method_str, output_folder, verbose,
                 verbosity, params, graphNValues, nfg, values, pgo, current_key,
                 init_values, init_factors, calls>>

(* main, lines 84-91 *)
ReadOutputAndVerbose ==
  /\ pc = "output"
  /\ output_folder' = IF argc > 8 THEN argv[8] ELSE output_folder
  /\ verbose' = IF argc > 9 THEN argv[9] = "v" ELSE FALSE
  /\ pc' = "params"
  /\ UNCHANGED <<argc, argv, disk, pcm_str, gnc_str, g2ofile, pcm_t, pcm_R,
                 gnc_barcsq, max_clique_method_str, max_clique_method, verbosity,
                 params, graphNValues, nfg, values, pgo, current_key,
                 init_values, init_factors, calls, logs>>

(* main, lines 92-97 *)
InitParams ==
  /\ pc = "params"
  /\ params' = logOutput(DefaultParams, output_folder)
  /\ calls' = calls \o <<Call("RobustSolverParams", <<>>),
                         Call("logOutput", <<output_folder>>)>>
  /\ verbosity' = IF ~verbose THEN "QUIET" ELSE "VERBOSE"
  /\ pc' = "configure"
  /\ UNCHANGED <<argc, argv, disk, pcm_str, gnc_str, g2ofile, pcm_t, pcm_R,
                 gnc_barcsq, max_clique_method_str, max_clique_method,
                 output_folder, verbose, graphNValues, nfg, values, pgo,
                 current_key, init_values, init_factors, logs>>

(* variant: NoGNC leaves the GNC threshold unset *)
GncUnderNoPCM_Silent(p, gnc, barcsq) ==
  IF gnc = "NoGNC" THEN
    [params |-> p, gnc_barcsq |-> DBL_MAX, calls |-> <<>>,
     logs |-> <<Log("INFO", "Options: NONE")>>]
  ELSE IF gnc = "GNC" THEN
    [params |-> setGncInlierCostThresholds(p, barcsq), gnc_barcsq |-> barcsq,
     calls |-> <<Call("setGncInlierCostThresholds", <<barcsq>>)>>,
     logs |-> <<Log("INFO", "Options: GNC")>>]
  ELSE
    [params |-> p, gnc_barcsq |-> barcsq, calls |-> <<>>,
     logs |-> <<Log("WARNING", "Unsupported GNC option")>>]

(* main, lines 106-119: the GNC options under NoPCM *)
GncUnderNoPCM(p, gnc, barcsq) ==
  IF gnc = "NoGNC" THEN
    [params |-> setGncInlierCostThresholds(p, DBL_MAX), gnc_barcsq |-> DBL_MAX,
     calls |-> <<Call("setGncInlierCostThresholds", <<DBL_MAX>>)>>,
     logs |-> <<Log("INFO", "Options: NONE")>>]
  ELSE IF gnc = "GNC" THEN
    [params |-> setGncInlierCostThresholds(p, barcsq), gnc_barcsq |-> barcsq,
     calls |-> <<Call("setGncInlierCostThresholds", <<barcsq>>)>>,
     logs |-> <<Log("INFO", "Options: GNC")>>]
  ELSE
    [params |-> p, gnc_barcsq |-> barcsq, calls |-> <<>>,
     logs |-> <<Log("WARNING", "Unsupported GNC option")>>]

(* variant: an unsupported GNC token is treated as GNC *)
GncUnderPCM2dSimp_FallThrough(p, gnc, barcsq) ==
  IF gnc = "NoGNC" THEN
    [params |-> setGncInlierCostThresholds(p, DBL_MAX), gnc_barcsq |-> DBL_MAX,
     calls |-> <<Call("setGncInlierCostThresholds", <<DBL_MAX>>)>>,
     logs |-> <<Log("INFO", "Options: PCM Simple")>>]
  ELSE IF gnc = "GNC" THEN
    [params |-> setGncInlierCostThresholds(p, barcsq), gnc_barcsq |-> barcsq,
     calls |-> <<Call("setGncInlierCostThresholds", <<barcsq>>)>>,
     logs |-> <<Log("INFO", "Options: PCM Simple + GNC")>>]
  ELSE
    [params |-> setGncInlierCostThresholds(p, barcsq), gnc_barcsq |-> barcsq,
     calls |-> <<Call("setGncInlierCostThresholds", <<barcsq>>)>>,
     logs |-> <<Log("WARNING", "Unsupported GNC option")>>]

(* main, lines 123-136: the GNC options under PCM2dSimp *)
GncUnderPCM2dSimp(p, gnc, barcsq) ==
  IF gnc = "NoGNC" THEN
    [params |-> setGncInlierCostThresholds(p, DBL_MAX), gnc_barcsq |-> DBL_MAX,
     calls |-> <<Call("setGncInlierCostThresholds", <<DBL_MAX>>)>>,
     logs |-> <<Log("INFO", "Options: PCM Simple")>>]
  ELSE IF gnc = "GNC" THEN
    [params |-> setGncInlierCostThresholds(p, barcsq), gnc_barcsq |-> barcsq,
     calls |-> <<Call("setGncInlierCostThresholds", <<barcsq>>)>>,
     logs |-> <<Log("INFO", "Options: PCM Simple + GNC")>>]
  ELSE
    [params |-> p, gnc_barcsq |-> barcsq, calls |-> <<>>,
     logs |-> <<Log("WARNING", "Unsupported GNC option")>>]

(* variant: NoGNC passes the user's threshold on *)
GncUnderPCM2dOrig_NoOverride(p, gnc, barcsq) ==
  IF gnc = "NoGNC" THEN
    [params |-> setGncInlierCostThresholds(p, barcsq), gnc_barcsq |-> barcsq,
     calls |-> <<Call("setGncInlierCostThresholds", <<barcsq>>)>>,
     logs |-> <<Log("INFO", "Options: PCM Orig")>>]
  ELSE IF gnc = "GNC" THEN
    [params |-> setGncInlierCostThresholds(p, barcsq), gnc_barcsq |-> barcsq,
     calls |-> <<Call("setGncInlierCostThresholds", <<barcsq>>)>>,
     logs |-> <<Log("INFO", "Options: PCM Orig + GNC")>>]
  ELSE
    [params |-> p, gnc_barcsq |-> barcsq, calls |-> <<>>,
     logs |-> <<Log("WARNING", "Unsupported GNC option")>>]

(* main, lines 142-155: the GNC options under PCM2dOrig *)
GncUnderPCM2dOrig(p, gnc, barcsq) ==
  IF gnc = "NoGNC" THEN
    [params |-> setGncInlierCostThresholds(p, DBL_MAX), gnc_barcsq |-> DBL_MAX,
     calls |-> <<Call("setGncInlierCostThresholds", <<DBL_MAX>>)>>,
     logs |-> <<Log("INFO", "Options: PCM Orig")>>]
  ELSE IF gnc = "GNC" THEN
    [params |-> setGncInlierCostThresholds(p, barcsq), gnc_barcsq |-> barcsq,
     calls |-> <<Call("setGncInlierCostThresholds", <<barcsq>>)>>,
     logs |-> <<Log("INFO", "Options: PCM Orig + GNC")>>]
  ELSE
    [params |-> p, gnc_barcsq |-> barcsq, calls |-> <<>>,
     logs |-> <<Log("WARNING", "Unsupported GNC option")>>]

(* variant: only the first threshold is overridden *)
NoPcmThresholds_KeepR(t, R) == [t |-> DBL_MAX, R |-> R]

(* main, lines 100-105: the thresholds NoPCM hands to setPcm2DParams *)
NoPcmThresholds(t, R) == [t |-> DBL_MAX, R |-> DBL_MAX]

(* main, lines 100-119 *)
ConfigureNoPCM ==
  /\ pc = "configure"
  /\ pcm_str = "NoPCM"
  /\ LET th == NoPcmThresholds(pcm_t, pcm_R)
         p1 == setPcm2DParams(params, th.t, th.R, verbosity)
         p2 == setMaxCliqueMethod(p1, max_clique_method)
         r == GncUnderNoPCM(p2, gnc_str, gnc_barcsq)
     IN  /\ pcm_t' = th.t
         /\ pcm_R' = th.R
         /\ params' = r.params
         /\ gnc_barcsq' = r.gnc_barcsq
         /\ calls' = calls \o <<Call("setPcm2DParams", <<th.t, th.R, verbosity>>),
                                Call("setMaxCliqueMethod", <<max_clique_method>>)>>
                           \o r.calls
         /\ logs' = logs \o r.logs
  /\ pc' = "load"
  /\ UNCHANGED <<argc, argv, disk, pcm_str, gnc_str, g2ofile,
                 max_clique_method_str, max_clique_method, output_folder, verbose,
                 verbosity, graphNValues, nfg, values, pgo, current_key,
                 init_values, init_factors>>

(* variant: PCM2dSimp configures the original PCM *)
ConfigurePCM2dSimp_WrongSetter ==
  /\ pc = "configure"
  /\ pcm_str # "NoPCM" /\ pcm_str = "PCM2dSimp"
  /\ LET p1 == setPcm2DParams(params, pcm_t, pcm_R, verbosity)
         p2 == setMaxCliqueMethod(p1, max_clique_method)
         r == GncUnderPCM2dSimp(p2, gnc_str, gnc_barcsq)
     IN  /\ params' = r.params
         /\ gnc_barcsq' = r.gnc_barcsq
         /\ calls' = calls \o <<Call("setPcm2DParams", <<pcm_t, pcm_R, verbosity>>),
                                Call("setMaxCliqueMethod", <<max_clique_method>>)>>
                           \o r.calls
         /\ logs' = logs \o r.logs
  /\ pc' = "load"
  /\ UNCHANGED <<argc, argv, disk, pcm_str, gnc_str, g2ofile, pcm_t, pcm_R,
                 max_clique_method_str, max_clique_method, output_folder, verbose,
                 verbosity, graphNValues, nfg, values, pgo, current_key,
                 init_values, init_factors>>

(* main, lines 120-136 *)
ConfigurePCM2dSimp ==
  /\ pc = "configure"
  /\ pcm_str # "NoPCM" /\ pcm_str = "PCM2dSimp"
  /\ LET p1 == setPcmSimple2DParams(params, pcm_t, pcm_R, verbosity)
         p2 == setMaxCliqueMethod(p1, max_clique_method)
         r == GncUnderPCM2dSimp(p2, gnc_str, gnc_barcsq)
     IN  /\ params' = r.params
         /\ gnc_barcsq' = r.gnc_barcsq
         /\ calls' = calls \o <<Call("setPcmSimple2DParams", <<pcm_t, pcm_R, verbosity>>),
                                Call("setMaxCliqueMethod", <<max_clique_method>>)>>
                           \o r.calls
         /\ logs' = logs \o r.logs
  /\ pc' = "load"
  /\ UNCHANGED <<argc, argv, disk, pcm_str, gnc_str, g2ofile, pcm_t, pcm_R,
                 max_clique_method_str, max_clique_method, output_folder, verbose,
                 verbosity, graphNValues, nfg, values, pgo, current_key,
                 init_values, init_factors>>

(* main, lines 137-155 *)
ConfigurePCM2dOrig ==
  /\ pc = "configure"
  /\ pcm_str \notin {"NoPCM", "PCM2dSimp"} /\ pcm_str = "PCM2dOrig"
  /\ LET p1 == setPcm2DParams(params, pcm_t, pcm_R, verbosity)
         p2 == setMaxCliqueMethod(p1, max_clique_method)
         r == GncUnderPCM2dOrig(p2, gnc_str, gnc_barcsq)
     IN  /\ params' = r.params
         /\ gnc_barcsq' = r.gnc_barcsq
         /\ calls' = calls \o <<Call("setPcm2DParams", <<pcm_t, pcm_R, verbosity>>),
                                Call("setMaxCliqueMethod", <<max_clique_method>>)>>
                           \o r.calls
         /\ logs' = logs \o r.logs
  /\ pc' = "load"
  /\ UNCHANGED <<argc, argv, disk, pcm_str, gnc_str, g2ofile, pcm_t, pcm_R,
                 max_clique_method_str, max_clique_method, output_folder, verbose,
                 verbosity, graphNValues, nfg, values, pgo, current_key,
                 init_values, init_factors>>

(* variant: an unsupported PCM token ends the run *)
UnsupportedPCM_Exits ==
  /\ pc = "configure"
  /\ pcm_str \notin {"NoPCM", "PCM2dSimp", "PCM2dOrig"}
  /\ logs' = Append(logs, Log("WARNING", "Unsupported PCM option"))
  /\ pc' = "aborted"
  /\ UNCHANGED <<argc, argv, disk, pcm_str, gnc_str, g2ofile, pcm_t, pcm_R,
                 gnc_barcsq, max_clique_method_str, max_clique_method,
                 output_folder, verbose, verbosity, params, graphNValues, nfg,
                 values, pgo, current_key, init_values, init_factors, calls>>

(* variant: an unsupported PCM token still sets the max-clique method *)
UnsupportedPCM_SetsClique ==
  /\ pc = "configure"
  /\ pcm_str \notin {"NoPCM", "PCM2dSimp", "PCM2dOrig"}
  /\ params' = setMaxCliqueMethod(params, max_clique_method)
  /\ calls' = Append(calls, Call("setMaxCliqueMethod", <<max_clique_method>>))
  /\ logs' = Append(logs, Log("WARNING", "Unsupported PCM option"))
  /\ pc' = "load"
  /\ UNCHANGED <<argc, argv, disk, pcm_str, gnc_str, g2ofile, pcm_t, pcm_R,
                 gnc_barcsq, max_clique_method_str, max_clique_method,
                 output_folder, verbose, verbosity, graphNValues, nfg,
                 values, pgo, current_key, init_values, init_factors>>

(* main, lines 156-159 *)
UnsupportedPCM ==
  /\ pc = "configure"
  /\ pcm_str \notin {"NoPCM", "PCM2dSimp", "PCM2dOrig"}
  /\ logs' = Append(logs, Log("WARNING", "Unsupported PCM option"))
  /\ pc' = "load"
  /\ UNCHANGED <<argc, argv, disk, pcm_str, gnc_str, g2ofile, pcm_t, pcm_R,
                 gnc_barcsq, max_clique_method_str, max_clique_method,
                 output_folder, verbose, verbosity, params, graphNValues, nfg,
                 values, pgo, current_key, init_values, init_factors, calls>>

(* main, lines 161-168: load2D throws when the file cannot be opened; the  *)
(* call of Simulate<gtsam::Pose2> copies graph, params and folder          *)
Load2D ==
  /\ pc = "load"
  /\ calls' = Append(calls, Call("load2D", <<g2ofile>>))
  /\ IF g2ofile = GraphFile
       THEN /\ graphNValues' = disk
            /\ pc' = "simulate"
       ELSE /\ graphNValues' = graphNValues
            /\ pc' = "aborted"
  /\ UNCHANGED <<argc, argv, disk, pcm_str, gnc_str, g2ofile, pcm_t, pcm_R,
                 gnc_barcsq, max_clique_method_str, max_clique_method,
                 output_folder, verbose, verbosity, params, nfg, values, pgo,
                 current_key, init_values, init_factors, logs>>

(* Simulate, lines 32-36 *)
SimulateConstruct ==
  /\ pc = "simulate"
  /\ nfg' = graphNValues.factors
  /\ values' = graphNValues.values
  /\ pgo' = [constructed |-> TRUE, params |-> params]
  /\ calls' = Append(calls, Call("RobustSolver", <<params>>))
  /\ pc' = "prior"
  /\ UNCHANGED <<argc, argv, disk, pcm_str, gnc_str, g2ofile, pcm_t, pcm_R,
                 gnc_barcsq, max_clique_method_str, max_clique_method,
                 output_folder, verbose, verbosity, params, graphNValues,
                 current_key, init_values, init_factors, logs>>

(* Simulate, lines 38-51: nfg[0] and values.at throw on a missing element *)
SimulatePrior ==
  /\ pc = "prior"
  /\ IF Len(nfg) = 0 \/ ~Exists(values, nfg[1].keys[1])
       THEN /\ pc' = "aborted"
            /\ current_key' = IF Len(nfg) = 0 THEN current_key ELSE nfg[1].keys[1]
            /\ UNCHANGED <<nfg, init_values, init_factors>>
       ELSE LET key == nfg[1].keys[1]
            IN  /\ current_key' = key
                /\ init_values' = [init_values EXCEPT ![key] = values[key]]
                /\ init_factors' = init_factors
                /\ nfg' = Append(nfg, PriorFactor(key, values[key]))
                /\ pc' = "update"
  /\ UNCHANGED <<argc, argv, disk, pcm_str, gnc_str, g2ofile, pcm_t, pcm_R,
                 gnc_barcsq, max_clique_method_str, max_clique_method,
                 output_folder, verbose, verbosity, params, graphNValues,
                 values, pgo, calls, logs>>

(* variant: the solver is given the locally built first value and factors *)
SimulateUpdate_InitOnly ==
  /\ pc = "update"
  /\ calls' = Append(calls, Call("update", <<init_factors, init_values>>))
  /\ pc' = "save"
  /\ UNCHANGED <<argc, argv, disk, pcm_str, gnc_str, g2ofile, pcm_t, pcm_R,
                 gnc_barcsq, max_clique_method_str, max_clique_method,
                 output_folder, verbose, verbosity, params, graphNValues, nfg,
                 values, pgo, current_key, init_values, init_factors, logs>>

(* Simulate, line 52 *)
SimulateUpdate ==
  /\ pc = "update"
  /\ calls' = Append(calls, Call("update", <<nfg, values>>))
  /\ pc' = "save"
  /\ UNCHANGED <<argc, argv, disk, pcm_str, gnc_str, g2ofile, pcm_t, pcm_R,
                 gnc_barcsq, max_clique_method_str, max_clique_method,
                 output_folder, verbose, verbosity, params, graphNValues, nfg,
                 values, pgo, current_key, init_values, init_factors, logs>>

(* Simulate, line 54 *)
SimulateSaveData ==
  /\ pc = "save"
  /\ calls' = Append(calls, Call("saveData", <<output_folder>>))
  /\ pc' = "done"
  /\ UNCHANGED <<argc, argv, disk, pcm_str, gnc_str, g2ofile, pcm_t, pcm_R,
                 gnc_barcsq, max_clique_method_str, max_clique_method,
                 output_folder, verbose, verbosity, params, graphNValues, nfg,
                 values, pgo, current_key, init_values, init_factors, logs>>

Next ==
  \/ ReadArgs
  \/ SelectMaxCliqueMethod
  \/ ReadOutputAndVerbose
  \/ InitParams
  \/ ConfigureNoPCM
  \/ ConfigurePCM2dSimp
  \/ ConfigurePCM2dOrig
  \/ UnsupportedPCM
  \/ Load2D
  \/ SimulateConstruct
  \/ SimulatePrior
  \/ SimulateUpdate
  \/ SimulateSaveData

Spec == Init /\ [][Next]_vars
SpecSim == InitSim /\ [][Next]_vars

(* every combination of tokens, one choice of thresholds; the program runs *)
(* on its own, so a step that can be taken is taken                        *)
InitTokens ==
  /\ argv \in {a \in Argv2d \cup Argv3d :
                 \A i \in 3 .. 6 : a[i] \in NumStrs => a[i] = "7"}
  /\ argc = Len(argv) + 1
  /\ disk \in SampleGraphs
  /\ Common

SpecFair == InitTokens /\ [][Next]_vars /\ WF_vars(Next)

TypeOK == pc \in {"start", "clique", "output", "params", "configure", "load",
                  "simulate", "prior", "update", "save", "done", "aborted"}

-----------------------------------------------------------------------------
(* Vocabulary of the properties *)
SetterNames == {"logOutput", "setPcm2DParams", "setPcmSimple2DParams",
                "setMaxCliqueMethod", "setGncInlierCostThresholds"}
PcmSetterNames == {"setPcm2DParams", "setPcmSimple2DParams"}

CallIdx(f) == {i \in 1 .. Len(calls) : calls[i].fn = f}
Count(f) == Cardinality(CallIdx(f))
CallsOf(F) == SelectSeq(calls, LAMBDA c : c.fn \in F)
Logged(level, text) == \E i \in 1 .. Len(logs) : logs[i] = Log(level, text)

Configured == pc \in {"load", "simulate", "prior", "update", "save", "done", "aborted"}
GraphUsable == argv[3] = GraphFile /\ Len(disk.factors) > 0

RunVerbosity == IF argc > 9 /\ argv[9] = "v" THEN "VERBOSE" ELSE "QUIET"
MethodOf(token) ==
  CASE token = "pmc_exact" -> "PMC_EXACT"
    [] token = "clipper" -> "CLIPPER"
    [] OTHER -> "PMC_HEU"

Phase(f) ==
  CASE f \in SetterNames \cup {"RobustSolverParams"} -> 1
    [] f = "load2D" -> 2
    [] f = "RobustSolver" -> 3
    [] f = "update" -> 4
    [] f = "saveData" -> 5

-----------------------------------------------------------------------------
C1_Order ==
  /\ \A i \in 1 .. Len(calls) : \A j \in 1 .. Len(calls) :
       i < j => Phase(calls[i].fn) <= Phase(calls[j].fn)
  /\ \A f \in {"load2D", "RobustSolver", "update", "saveData"} : Count(f) <= 1
  /\ \A i \in CallIdx("RobustSolver") : calls[i].args[1] = params
  /\ pc = "aborted" => ~GraphUsable
  /\ pc = "done" =>
       /\ \A f \in {"load2D", "RobustSolver", "update", "saveData"} : Count(f) = 1
       /\ Count("logOutput") = 1

(* C1: whatever the PCM, GNC and max-clique tokens are, a run on a graph   *)
(* that loads and is not empty never aborts and reaches the end having     *)
(* called, in this order and once each after all the params setters:       *)
(* load2D, the RobustSolver constructor on the params, update, saveData.   *)
C1_PhasesInOrder == [](C1_Order) /\ (GraphUsable ~> pc = "done")

C1_Witness ==
  /\ pc = "done"
  /\ argv[1] \notin PcmTokens /\ argv[2] \notin GncTokens /\ argv[7] \notin CliqueTokens
  /\ Count("saveData") = 1

C3_NoPcmSentinel ==
  argv[1] = "NoPCM" =>
    /\ \A i \in CallIdx("setPcm2DParams") :
         calls[i].args[1] = DBL_MAX /\ calls[i].args[2] = DBL_MAX
    /\ Configured => Count("setPcm2DParams") = 1 /\ Count("setPcmSimple2DParams") = 0

C3_Witness ==
  /\ argv[1] = "NoPCM" /\ argv[4] = "7" /\ argv[5] = "-12"
  /\ Count("setPcm2DParams") = 1 /\ pgo.constructed

(* C4: under each recognized PCM token the GNC threshold handed to         *)
(* setGncInlierCostThresholds is the largest double for NoGNC and          *)
(* atof(argv[6]) for GNC.                                                  *)
C4_GncThreshold ==
  (argv[1] \in PcmTokens /\ argv[2] \in GncTokens /\ Configured) =>
    CallsOf({"setGncInlierCostThresholds"}) =
      <<Call("setGncInlierCostThresholds",
             <<IF argv[2] = "NoGNC" THEN DBL_MAX ELSE atof(argv[6])>>)>>

C4_Witness ==
  /\ argv[1] = "PCM2dOrig" /\ argv[2] = "GNC" /\ argv[6] = "-12"
  /\ pc = "done"
  /\ CallsOf({"setGncInlierCostThresholds"}) =
       <<Call("setGncInlierCostThresholds", <<Dbl(0 - 12)>>)>>

(* C5: PCM2dSimp calls setPcmSimple2DParams(argv[4], argv[5]), PCM2dOrig   *)
(* calls setPcm2DParams(argv[4], argv[5]), NoPCM calls setPcm2DParams;     *)
(* one PCM setter call in each case, with the run's verbosity.             *)
C5_PcmVariant ==
  (argv[1] \in PcmTokens /\ Configured) =>
    LET pcmCalls == CallsOf(PcmSetterNames)
    IN  /\ Len(pcmCalls) = 1
        /\ pcmCalls[1].args[3] = RunVerbosity
        /\ argv[1] = "PCM2dSimp" =>
             pcmCalls[1] = Call("setPcmSimple2DParams",
                                <<atof(argv[4]), atof(argv[5]), RunVerbosity>>)
        /\ argv[1] = "PCM2dOrig" =>
             pcmCalls[1] = Call("setPcm2DParams",
                                <<atof(argv[4]), atof(argv[5]), RunVerbosity>>)
        /\ argv[1] = "NoPCM" => pcmCalls[1].fn = "setPcm2DParams"

C5_Witness ==
  /\ argv[1] = "PCM2dSimp" /\ argv[4] = "3x" /\ argv[5] = " +40"
  /\ argc > 9 /\ argv[9] = "v"
  /\ pc = "done"
  /\ CallsOf(PcmSetterNames) =
       <<Call("setPcmSimple2DParams", <<Dbl(3), Dbl(40), "VERBOSE">>)>>

(* C6: for each recognized PCM token with each recognized GNC token the    *)
(* params get one PCM setter call, then one setMaxCliqueMethod call with   *)
(* the method of argv[7], then one setGncInlierCostThresholds call, all    *)
(* before the solver is constructed.                                       *)
C6_Composable ==
  (argv[1] \in PcmTokens /\ argv[2] \in GncTokens /\ Configured) =>
    LET cfg == CallsOf(SetterNames \ {"logOutput"})
    IN  /\ Len(cfg) = 3
        /\ cfg[1].fn \in PcmSetterNames
        /\ cfg[2] = Call("setMaxCliqueMethod", <<MethodOf(argv[7])>>)
        /\ cfg[3].fn = "setGncInlierCostThresholds"
        /\ \A i \in CallIdx("RobustSolver") :
             \A j \in 1 .. Len(calls) : calls[j].fn \in SetterNames => j < i

C6_Witness ==
  /\ argv[1] = "NoPCM" /\ argv[2] = "NoGNC" /\ argv[7] = "clipper"
  /\ pc = "done"
  /\ Len(CallsOf(SetterNames \ {"logOutput"})) = 3

(* C7: in the form "3d <file> <t> <R> <barc_sq> <method> <out> <v>" the    *)
(* graph is read from argv[2], the thresholds come from argv[3..5], the    *)
(* method from argv[6], and the solver runs on Pose3.                      *)
C7_ThreeDForm ==
  argv[1] = "3d" =>
    /\ \A i \in CallIdx("load2D") : calls[i].args[1] = argv[2]
    /\ pc # "start" => /\ g2ofile = argv[2]
                       /\ pcm_t = atof(argv[3]) /\ pcm_R = atof(argv[4])
                       /\ max_clique_method_str = argv[6]
    /\ \A i \in 1 .. Len(nfg) : nfg[i].type = "prior" => nfg[i].pose = "Pose3"

(* C8: with a recognized PCM token and an unrecognized GNC token a warning *)
(* is logged and setGncInlierCostThresholds is never called, so the GNC    *)
(* threshold stays as constructed; the PCM setter and setMaxCliqueMethod   *)
(* are called as usual and the run goes on to update and saveData.         *)
C8_UnsupportedGnc ==
  (argv[1] \in PcmTokens /\ argv[2] \notin GncTokens) =>
    /\ Count("setGncInlierCostThresholds") = 0
    /\ Configured =>
         /\ Logged("WARNING", "Unsupported GNC option")
         /\ LET cfg == CallsOf(SetterNames \ {"logOutput"})
            IN  /\ Len(cfg) = 2
                /\ cfg[1] = Call(IF argv[1] = "PCM2dSimp" THEN "setPcmSimple2DParams"
                                                           ELSE "setPcm2DParams",
                                 IF argv[1] = "NoPCM"
                                   THEN <<DBL_MAX, DBL_MAX, RunVerbosity>>
                                   ELSE <<atof(argv[4]), atof(argv[5]), RunVerbosity>>)
                /\ cfg[2] = Call("setMaxCliqueMethod", <<MethodOf(argv[7])>>)
    /\ pc = "aborted" => ~GraphUsable
    /\ pc = "done" => Count("update") = 1 /\ Count("saveData") = 1

C8_Witness ==
  /\ argv[1] = "PCM2dSimp" /\ argv[2] = "gnc" /\ argv[6] = "7"
  /\ pc = "done"
  /\ Logged("WARNING", "Unsupported GNC option")
  /\ Count("saveData") = 1

(* C9: with an unrecognized PCM token a warning is logged and no PCM,      *)
(* max-clique or GNC setter is called: but for logOutput the params reach  *)
(* the solver as default-constructed, whatever the other arguments are.    *)
C9_UnsupportedPcm ==
  argv[1] \notin PcmTokens =>
    /\ CallsOf(SetterNames \ {"logOutput"}) = <<>>
    /\ Configured => Logged("WARNING", "Unsupported PCM option")
    /\ \A i \in CallIdx("RobustSolver") :
         calls[i].args[1] = logOutput(DefaultParams, IF argc > 8 THEN argv[8] ELSE "")

C9_Witness ==
  /\ argv[1] = "PCM3d" /\ argv[2] = "GNC" /\ argv[7] = "clipper" /\ argv[6] = "7"
  /\ pc = "done"
  /\ Count("RobustSolver") = 1

(* C10: on a loaded graph with at least one factor, Simulate calls update  *)
(* once, with the loaded factors in order followed by one prior factor on  *)
(* the first key of the first factor, holding that key's loaded value, and *)
(* with the loaded values; the prior's key is among those values; the      *)
(* local init_values / init_factors are not what is passed.                *)
C10_SingleUpdate ==
  /\ Count("update") <= 1
  /\ (pc \in {"save", "done"}) => Count("update") = 1
  /\ \A i \in CallIdx("update") :
       LET k == disk.factors[1].keys[1]
       IN  /\ calls[i].args[1] = Append(disk.factors, PriorFactor(k, disk.values[k]))
           /\ calls[i].args[2] = disk.values
           /\ \A c \in FactorKeys(calls[i].args[1]) : Exists(calls[i].args[2], c)
           /\ calls[i].args # <<init_factors, init_values>>

C10_Witness ==
  /\ pc = "done"
  /\ Len(disk.factors) = 2
  /\ disk.factors[1].keys = <<1, 0>>
  /\ disk.values[1] = "p1" /\ disk.values[0] = "p0"
  /\ Count("update") = 1
====
